---- MODULE Spec2Model ----
(***************************************************************************)
(* Model of the deepfake analyzer screen (src/app/deepfake-analyzer.jsx)   *)
(* and of the deepfakeService module it drives (services/deepfakeService). *)
(*                                                                         *)
(* Spec / FairSpec : the screen as a state machine of asynchronous tasks   *)
(*                   (pick, capture, analyze, clear dialog, timers).       *)
(* ServiceSpec     : the service functions applied to bounded inputs.      *)
(***************************************************************************)
EXTENDS Integers, Sequences, FiniteSets, TLC

VARIABLES
  selectedImage,   \* useState(null): an image id or Null
  isAnalyzing,     \* useState(false)
  analysisResult,  \* useState(null): a result id or Null
  apiAvailable,    \* useState(true)
  ptask,           \* the handlePickImage / handleCaptureImage task, per handler
  atask,           \* the handleAnalyze task
  clearDialog,     \* the 'Clear Analysis' alert: "closed" or the selectedImage its onPress closure holds
  timers,          \* pending setTimeout callbacks of handleAnalyze
  files,           \* images whose backing file exists on the device
  out,             \* calls the last step made on its collaborators (alerts, requests, deletions)
  call             \* ServiceSpec: the last service function call and its outcome

vars == <<selectedImage, isAnalyzing, analysisResult, apiAvailable, ptask,
          atask, clearDialog, timers, files, out, call>>

uiVars == <<selectedImage, isAnalyzing, analysisResult, apiAvailable, ptask,
            atask, clearDialog, timers, files, out>>

(***************************************************************************)
(* Bounds                                                                  *)
(***************************************************************************)
MaxAnalyses == 2    \* handleAnalyze tasks started in one behaviour

(***************************************************************************)
(* JavaScript values                                                       *)
(***************************************************************************)
Null == "null"

Undefined == [type |-> "undefined"]
JNull == [type |-> "null"]
Str(s) == [type |-> "string", chars |-> s]
Num(n) == [type |-> "number", num |-> n]
Arr(s) == [type |-> "array", items |-> s]
Obj(f) == [type |-> "object", fields |-> f]
EmptyObj == [type |-> "object", fields |-> [k \in {} |-> Undefined]]

Return(v) == [kind |-> "return", value |-> v]
Throw(m) == [kind |-> "throw", message |-> m]

\* ToBoolean
Truthy(v) ==
  CASE v.type = "undefined" -> FALSE
    [] v.type = "null" -> FALSE
    [] v.type = "string" -> Len(v.chars) > 0
    [] v.type = "number" -> v.num # 0
    [] OTHER -> TRUE

\* v[key]: a TypeError on null and undefined, undefined for a missing key
Get(v, key) ==
  CASE v.type \in {"undefined", "null"} ->
         Throw(<<"Cannot read property '", key, "' of ", v.type>>)
    [] v.type = "object" ->
         IF key \in DOMAIN v.fields THEN Return(v.fields[key]) ELSE Return(Undefined)
    [] OTHER -> Return(Undefined)

\* a === b, for the primitive values compared in the service
StrictEq(a, b) ==
  /\ a.type = b.type
  /\ CASE a.type = "string" -> a.chars = b.chars
       [] a.type = "number" -> a.num = b.num
       [] a.type \in {"undefined", "null"} -> TRUE
       [] OTHER -> FALSE

RECURSIVE Join(_)
Join(s) == IF s = <<>> THEN <<>> ELSE Head(s) \o Join(Tail(s))

\* String(v), as new Error(v) and template literals apply it
ToStringJS(v) ==
  CASE v.type = "string" -> v.chars
    [] v.type = "number" -> <<ToString(v.num)>>
    [] v.type = "object" -> <<"[object Object]">>
    [] v.type = "array" ->
         Join([i \in DOMAIN v.items |->
                 IF v.items[i].type = "string" THEN v.items[i].chars
                 ELSE IF v.items[i].type = "object" THEN <<"[object Object]">>
                 ELSE <<>>])
    [] OTHER -> <<v.type>>

\* s.startsWith(p)
StartsWith(s, p) == Len(s) >= Len(p) /\ SubSeq(s, 1, Len(p)) = p

(***************************************************************************)
(* HTTP responses and their bodies                                         *)
(***************************************************************************)
HealthyBody == "{\"status\":\"healthy\"}"
DownBody == "{\"status\":\"down\"}"
CapsBody == "{\"status\":\"Healthy\"}"
NoFieldBody == "{}"
NullBody == "null"
TextBody == "\"healthy\""
HtmlBody == "<html>Bad Gateway</html>"
EmptyBody == ""
DetailBody == "{\"detail\":\"bad image\"}"
EmptyDetailBody == "{\"detail\":\"\"}"
ListDetailBody == "{\"detail\":[{\"msg\":\"field required\"}]}"
ResultBody == "{\"verification_result\":\"ok\"}"

Bodies == {HealthyBody, DownBody, CapsBody, NoFieldBody, NullBody, TextBody,
           HtmlBody, EmptyBody, DetailBody, EmptyDetailBody, ListDetailBody,
           ResultBody}

ParseError == [type |-> "error"]

\* response.json() on the bodies above: the decoded value, or ParseError
JSONParse(body) ==
  CASE body = HealthyBody -> Obj([status |-> Str(<<"healthy">>)])
    [] body = DownBody -> Obj([status |-> Str(<<"down">>)])
    [] body = CapsBody -> Obj([status |-> Str(<<"Healthy">>)])
    [] body = NoFieldBody -> EmptyObj
    [] body = NullBody -> JNull
    [] body = TextBody -> Str(<<"healthy">>)
    [] body = DetailBody -> Obj([detail |-> Str(<<"bad image">>)])
    [] body = EmptyDetailBody -> Obj([detail |-> Str(<<>>)])
    [] body = ListDetailBody ->
         Obj([detail |-> Arr(<<Obj([msg |-> Str(<<"field required">>)])>>)])
    [] body = ResultBody -> Obj([verification_result |-> Str(<<"ok">>)])
    [] OTHER -> ParseError

Statuses == {200, 204, 404, 422, 500}

\* response.ok
Ok(status) == status >= 200 /\ status <= 299

Responses == [transport : {"ok", "fail"}, status : Statuses, body : Bodies]

\* the responses the screen's requests settle with
ScreenResponses ==
  {[transport |-> "fail", status |-> 200, body |-> EmptyBody]} \cup
  [transport : {"ok"}, status : {200, 500},
   body : {HealthyBody, DownBody, NullBody, HtmlBody, DetailBody, ResultBody}]

(***************************************************************************)
(* deepfakeService                                                         *)
(***************************************************************************)
ReadFailedMessage == <<"File is not readable">>
NetworkFailedMessage == <<"Network request failed">>
JSONParseMessage == <<"JSON Parse error">>
NotAFunctionMessage == <<"uri.startsWith is not a function">>
DeleteFailedMessage == <<"File could not be deleted">>
LibraryPermissionMessage == <<"Sorry, we need camera roll permissions to analyze images.">>
CameraPermissionMessage == <<"Sorry, we need camera permissions to capture images.">>
PickerFailedMessage == <<"Picker failed">>

\* checkHealth's try block without the `!response.ok` test
CheckHealthTryAnyStatus(resp) ==
  IF resp.transport = "fail" THEN Throw(NetworkFailedMessage)
  ELSE LET data == JSONParse(resp.body) IN
    IF data.type = "error" THEN Throw(JSONParseMessage)
    ELSE LET st == Get(data, "status") IN
      IF st.kind = "throw" THEN st
      ELSE Return(StrictEq(st.value, Str(<<"healthy">>)))

\* the try block of checkHealth
CheckHealthTry(resp) ==
  IF resp.transport = "fail" THEN Throw(NetworkFailedMessage)
  ELSE IF ~Ok(resp.status) THEN Return(FALSE)
  ELSE LET data == JSONParse(resp.body) IN
    IF data.type = "error" THEN Throw(JSONParseMessage)
    ELSE LET st == Get(data, "status") IN
      IF st.kind = "throw" THEN st
      ELSE Return(StrictEq(st.value, Str(<<"healthy">>)))

\* checkHealth(): the catch block turns every throw into false
checkHealth(resp) ==
  LET r == CheckHealthTry(resp) IN
    IF r.kind = "throw" THEN Return(FALSE) ELSE r

\* the message analyzeImage builds for a response that is not ok
AnalyzeErrorMessage(resp) ==
  LET parsed == JSONParse(resp.body)
      errorData == IF parsed.type = "error" THEN EmptyObj ELSE parsed
      detail == Get(errorData, "detail")
  IN IF detail.kind = "throw" THEN detail.message
     ELSE IF Truthy(detail.value) THEN ToStringJS(detail.value)
     ELSE <<"Analysis failed: ", ToString(resp.status)>>

\* analyzeImage(imageUri): readable says whether readAsStringAsync succeeds;
\* posted says whether the POST was issued; the catch block rethrows
analyzeImage(readable, resp) ==
  IF ~readable THEN [posted |-> FALSE, result |-> Throw(ReadFailedMessage)]
  ELSE IF resp.transport = "fail"
    THEN [posted |-> TRUE, result |-> Throw(NetworkFailedMessage)]
  ELSE IF ~Ok(resp.status)
    THEN [posted |-> TRUE, result |-> Throw(AnalyzeErrorMessage(resp))]
  ELSE LET result == JSONParse(resp.body) IN
    IF result.type = "error"
      THEN [posted |-> TRUE, result |-> Throw(JSONParseMessage)]
      ELSE [posted |-> TRUE, result |-> Return(result)]

\* the try block of deleteImage: fs says whether FileSystem.deleteAsync was
\* invoked, fsOk whether that call succeeds
DeleteImageTry(uri, fsOk) ==
  IF ~Truthy(uri) THEN [fs |-> FALSE, result |-> Return(Undefined)]
  ELSE IF uri.type # "string"
    THEN [fs |-> FALSE, result |-> Throw(NotAFunctionMessage)]
  ELSE IF StartsWith(uri.chars, <<"f", "i", "l", "e", ":", "/", "/">>)
    THEN [fs |-> TRUE,
          result |-> IF fsOk THEN Return(Undefined) ELSE Throw(DeleteFailedMessage)]
  ELSE [fs |-> FALSE, result |-> Return(Undefined)]

\* deleteImage with a catch block that rethrows
deleteImageRethrows(uri, fsOk) == DeleteImageTry(uri, fsOk)

\* deleteImage(uri): the catch block logs and does not rethrow
deleteImage(uri, fsOk) ==
  LET r == DeleteImageTry(uri, fsOk) IN
    [fs |-> r.fs,
     result |-> IF r.result.kind = "throw" THEN Return(Undefined) ELSE r.result]

(***************************************************************************)
(* The screen: images, platform results, state                             *)
(***************************************************************************)
Images == {"imgA", "imgB"}

\* asset.uri of each image the platform can hand out
UriOf(img) ==
  IF img = "imgA" THEN <<"f", "i", "l", "e", ":", "/", "/", "/", "a">>
  ELSE <<"c", "o", "n", "t", "e", "n", "t", ":", "/", "/", "b">>

\* the AnalysisResult the screen holds after the server answered for img
ResultFor(img) == IF img = "imgA" THEN "resultA" ELSE "resultB"

Handlers == {"pick", "capture"}

PermissionStatuses == {"granted", "denied", "undetermined"}

\* what launchImageLibraryAsync / launchCameraAsync resolve with, or a rejection
PickerResults ==
  {[kind |-> "rejected", canceled |-> FALSE, assets |-> <<>>],
   [kind |-> "resolved", canceled |-> TRUE, assets |-> <<>>],
   [kind |-> "resolved", canceled |-> FALSE, assets |-> <<>>]}
  \cup {[kind |-> "resolved", canceled |-> FALSE, assets |-> <<i>>] : i \in Images}
  \cup {[kind |-> "resolved", canceled |-> FALSE, assets |-> <<p[1], p[2]>>] :
          p \in {q \in Images \X Images : q[1] # q[2]}}

IdleTask == [pc |-> "idle", perm |-> "none"]

NoAnalysis == [pc |-> "idle", img |-> Null, id |-> 0, healthy |-> "unknown",
               outcome |-> "none"]

NoCall == [op |-> "none"]

Init ==
  /\ selectedImage = Null
  /\ isAnalyzing = FALSE
  /\ analysisResult = Null
  /\ apiAvailable = TRUE
  /\ ptask = [h \in Handlers |-> IdleTask]
  /\ atask = NoAnalysis
  /\ clearDialog = "closed"
  /\ timers = {}
  /\ files = {}
  /\ out = <<>>
  /\ call = NoCall

Alert(title, message) == <<"alert", title>> \o message

\* error.message || fallback
MessageOr(message, fallback) == IF message = <<>> THEN fallback ELSE message

(***************************************************************************)
(* handlePickImage / handleCaptureImage with pickImage / captureImage      *)
(***************************************************************************)
PermissionMessage(h) ==
  IF h = "pick" THEN LibraryPermissionMessage ELSE CameraPermissionMessage

PickFallback(h) ==
  IF h = "pick" THEN <<"Failed to pick image">> ELSE <<"Failed to capture image">>

\* the upload / capture button (rendered while no image is selected) is
\* pressed: the handler calls the service, which requests the platform
\* permission and awaits it
PressPick(h) ==
  /\ selectedImage = Null
  /\ ptask[h].pc = "idle"
  /\ ptask' = [ptask EXCEPT ![h] = [pc |-> "perm", perm |-> "none"]]
  /\ out' = <<<<"requestPermission", h>>>>
  /\ UNCHANGED <<selectedImage, isAnalyzing, analysisResult, apiAvailable,
                 atask, clearDialog, timers, files, call>>

\* pickImage / captureImage launching the picker whatever the permission
PermissionDoneLaunchesAnyway(h, status) ==
  /\ ptask[h].pc = "perm"
  /\ ptask' = [ptask EXCEPT ![h] = [pc |-> "picker", perm |-> status]]
  /\ out' = <<<<"permission", h, status>>, <<"launch", h>>>>
  /\ UNCHANGED <<selectedImage, isAnalyzing, analysisResult, apiAvailable,
                 atask, clearDialog, timers, files, call>>

\* the platform answers the permission request and pickImage / captureImage
\* resumes: it throws to the handler, which alerts, or it launches the picker
PermissionDone(h, status) ==
  /\ ptask[h].pc = "perm"
  /\ IF status # "granted"
       THEN /\ ptask' = [ptask EXCEPT ![h] = IdleTask]
            /\ out' = <<<<"permission", h, status>>,
                        Alert("Error", MessageOr(PermissionMessage(h), PickFallback(h)))>>
       ELSE /\ ptask' = [ptask EXCEPT ![h] = [pc |-> "picker", perm |-> status]]
            /\ out' = <<<<"permission", h, status>>, <<"launch", h>>>>
  /\ UNCHANGED <<selectedImage, isAnalyzing, analysisResult, apiAvailable,
                 atask, clearDialog, timers, files, call>>

\* what pickImage / captureImage does with the picker's answer
PickReturn(res) ==
  IF res.kind = "rejected" THEN Throw(PickerFailedMessage)
  ELSE IF ~res.canceled /\ Len(res.assets) >= 1 THEN Return(res.assets[1])
  ELSE Return(Null)

\* the picker's answer as the step that receives it records it in out
PickerEvent(h, res) ==
  IF res.kind = "rejected" THEN <<"picker", h, "rejected">>
  ELSE IF res.canceled THEN <<"picker", h, "canceled">>
  ELSE <<"picker", h, "assets">> \o res.assets

\* the handler with setAnalysisResult(null) outside `if (image)`
PickerDoneResetsResult(h, res) ==
  /\ ptask[h].pc = "picker"
  /\ files' = files \cup {res.assets[i] : i \in DOMAIN res.assets}
  /\ LET image == PickReturn(res)
     IN IF image.kind = "throw"
          THEN /\ out' = <<PickerEvent(h, res),
                           Alert("Error", MessageOr(image.message, PickFallback(h)))>>
               /\ UNCHANGED <<selectedImage, analysisResult>>
          ELSE /\ out' = <<PickerEvent(h, res)>>
               /\ analysisResult' = Null
               /\ IF image.value # Null
                    THEN selectedImage' = image.value
                    ELSE UNCHANGED selectedImage
  /\ ptask' = [ptask EXCEPT ![h] = IdleTask]
  /\ UNCHANGED <<isAnalyzing, apiAvailable, atask, clearDialog, timers, call>>

\* the picker / camera resolves or rejects (a returned asset has a backing
\* file) and the handler resumes after `await deepfakeService.pickImage()`
PickerDone(h, res) ==
  /\ ptask[h].pc = "picker"
  /\ files' = files \cup {res.assets[i] : i \in DOMAIN res.assets}
  /\ LET image == PickReturn(res) IN
       IF image.kind = "throw"
         THEN /\ out' = <<PickerEvent(h, res),
                          Alert("Error", MessageOr(image.message, PickFallback(h)))>>
              /\ UNCHANGED <<selectedImage, analysisResult>>
         ELSE /\ out' = <<PickerEvent(h, res)>>
              /\ IF image.value # Null
                   THEN /\ selectedImage' = image.value
                        /\ analysisResult' = Null
                   ELSE UNCHANGED <<selectedImage, analysisResult>>
  /\ ptask' = [ptask EXCEPT ![h] = IdleTask]
  /\ UNCHANGED <<isAnalyzing, apiAvailable, atask, clearDialog, timers, call>>

(***************************************************************************)
(* deleteImage as the screen calls it                                      *)
(***************************************************************************)
\* the calls deleteImage(img.uri) makes
DeleteCalls(img, fsOk) ==
  LET d == deleteImage(Str(UriOf(img)), fsOk) IN
    IF d.fs THEN <<<<"deleteImage", img>>, <<"deleteAsync", img>>>>
    ELSE <<<<"deleteImage", img>>>>

\* the files left after deleteImage(img.uri)
DeleteFiles(img, fsOk) ==
  LET d == deleteImage(Str(UriOf(img)), fsOk) IN
    IF d.fs /\ fsOk THEN files \ {img} ELSE files

(***************************************************************************)
(* handleAnalyze                                                           *)
(***************************************************************************)
\* the analyze button (rendered while an image is selected, disabled while
\* isAnalyzing) is pressed: handleAnalyze runs up to `await checkHealth()`
PressAnalyze ==
  /\ selectedImage # Null
  /\ ~isAnalyzing
  /\ atask.id < MaxAnalyses
  /\ IF selectedImage = Null
       THEN /\ out' = <<Alert("No Image", <<"Please select or capture an image first">>)>>
            /\ UNCHANGED <<isAnalyzing, analysisResult, atask>>
       ELSE /\ isAnalyzing' = TRUE
            /\ analysisResult' = Null
            /\ atask' = [pc |-> "health", img |-> selectedImage, id |-> atask.id + 1,
                         healthy |-> "unknown", outcome |-> "none"]
            /\ out' = <<<<"GET", "/api/health">>>>
  /\ UNCHANGED <<selectedImage, apiAvailable, ptask, clearDialog, timers, files, call>>

\* the timer handleAnalyze sets after a successful analysis
TimerOf(task) == [img |-> task.img, id |-> task.id]

Timers == [img : Images, id : 1..MaxAnalyses]

\* handleAnalyze without the `if (!isHealthy)` early return
HealthDoneNoAbort(resp) ==
  /\ atask.pc = "health"
  /\ LET isHealthy == checkHealth(resp).value IN
       /\ apiAvailable' = isHealthy
       /\ out' = <<<<"analyzeImage", atask.img>>>>
       /\ atask' = [atask EXCEPT !.pc = "analyze",
                                 !.healthy = IF isHealthy THEN "yes" ELSE "no"]
  /\ UNCHANGED <<selectedImage, isAnalyzing, analysisResult, ptask, clearDialog,
                 timers, files, call>>

\* the health request settles and handleAnalyze resumes: either it gives up,
\* or it calls analyzeImage, which runs up to its last await
HealthDone(resp) ==
  /\ atask.pc = "health"
  /\ LET isHealthy == checkHealth(resp).value IN
       /\ apiAvailable' = isHealthy
       /\ IF ~isHealthy
            THEN /\ out' = <<Alert("Service Unavailable",
                              <<"The deepfake detection service is currently unavailable. Please try again later.">>)>>
                 /\ isAnalyzing' = FALSE
                 /\ atask' = [atask EXCEPT !.pc = "idle", !.healthy = "no",
                                           !.outcome = "unavailable"]
            ELSE /\ out' = <<<<"analyzeImage", atask.img>>>>
                 /\ atask' = [atask EXCEPT !.pc = "analyze", !.healthy = "yes"]
                 /\ UNCHANGED isAnalyzing
  /\ UNCHANGED <<selectedImage, analysisResult, ptask, clearDialog, timers, files, call>>

\* handleAnalyze with the setTimeout in its finally block
AnalyzeDoneTimerInFinally(resp) ==
  /\ atask.pc = "analyze"
  /\ LET a == analyzeImage(atask.img \in files, resp)
         requests == <<<<"readAsStringAsync", atask.img>>>> \o
                     (IF a.posted THEN <<<<"POST", "/api/analyze-deepfake", atask.img>>>>
                      ELSE <<>>)
     IN IF a.result.kind = "return"
          THEN /\ analysisResult' =
                    IF a.result.value.type = "null" THEN Null ELSE ResultFor(atask.img)
               /\ out' = requests \o <<<<"setTimeout", atask.img>>>>
               /\ atask' = [atask EXCEPT !.pc = "idle", !.outcome = "success"]
          ELSE /\ out' = requests \o
                    <<Alert("Analysis Failed",
                            MessageOr(a.result.message,
                                      <<"Failed to analyze image. Please try again.">>)),
                      <<"setTimeout", atask.img>>>>
               /\ atask' = [atask EXCEPT !.pc = "idle", !.outcome = "failed"]
               /\ UNCHANGED analysisResult
  /\ timers' = timers \cup {TimerOf(atask)}
  /\ isAnalyzing' = FALSE
  /\ UNCHANGED <<selectedImage, apiAvailable, ptask, clearDialog, files, call>>

\* handleAnalyze issuing the analyze request a second time after a failure
AnalyzeDoneRetries(resp) ==
  /\ atask.pc = "analyze"
  /\ LET a == analyzeImage(atask.img \in files, resp)
         post == IF a.posted THEN <<<<"POST", "/api/analyze-deepfake", atask.img>>>>
                 ELSE <<>>
         requests == <<<<"readAsStringAsync", atask.img>>>> \o post
     IN IF a.result.kind = "return"
          THEN /\ analysisResult' =
                    IF a.result.value.type = "null" THEN Null ELSE ResultFor(atask.img)
               /\ timers' = timers \cup {TimerOf(atask)}
               /\ out' = requests \o <<<<"setTimeout", atask.img>>>>
               /\ atask' = [atask EXCEPT !.pc = "idle", !.outcome = "success"]
          ELSE /\ out' = requests \o post \o
                    <<Alert("Analysis Failed",
                            MessageOr(a.result.message,
                                      <<"Failed to analyze image. Please try again.">>))>>
               /\ atask' = [atask EXCEPT !.pc = "idle", !.outcome = "failed"]
               /\ UNCHANGED <<analysisResult, timers>>
  /\ isAnalyzing' = FALSE
  /\ UNCHANGED <<selectedImage, apiAvailable, ptask, clearDialog, files, call>>

\* handleAnalyze with setIsAnalyzing(false) at the end of the try block
\* instead of in a finally block
AnalyzeDoneNoFinally(resp) ==
  /\ atask.pc = "analyze"
  /\ LET a == analyzeImage(atask.img \in files, resp)
         requests == <<<<"readAsStringAsync", atask.img>>>> \o
                     (IF a.posted THEN <<<<"POST", "/api/analyze-deepfake", atask.img>>>>
                      ELSE <<>>)
     IN IF a.result.kind = "return"
          THEN /\ analysisResult' =
                    IF a.result.value.type = "null" THEN Null ELSE ResultFor(atask.img)
               /\ timers' = timers \cup {TimerOf(atask)}
               /\ out' = requests \o <<<<"setTimeout", atask.img>>>>
               /\ atask' = [atask EXCEPT !.pc = "idle", !.outcome = "success"]
               /\ isAnalyzing' = FALSE
          ELSE /\ out' = requests \o
                    <<Alert("Analysis Failed",
                            MessageOr(a.result.message,
                                      <<"Failed to analyze image. Please try again.">>))>>
               /\ atask' = [atask EXCEPT !.pc = "idle", !.outcome = "failed"]
               /\ UNCHANGED <<analysisResult, timers, isAnalyzing>>
  /\ UNCHANGED <<selectedImage, apiAvailable, ptask, clearDialog, files, call>>

\* analyzeImage settles (file read, POST, response) and handleAnalyze runs
\* to its end through try, catch and finally
AnalyzeDone(resp) ==
  /\ atask.pc = "analyze"
  /\ LET a == analyzeImage(atask.img \in files, resp)
         requests == <<<<"readAsStringAsync", atask.img>>>> \o
                     (IF a.posted THEN <<<<"POST", "/api/analyze-deepfake", atask.img>>>>
                      ELSE <<>>)
     IN IF a.result.kind = "return"
          THEN /\ analysisResult' =
                    IF a.result.value.type = "null" THEN Null ELSE ResultFor(atask.img)
               /\ timers' = timers \cup {TimerOf(atask)}
               /\ out' = requests \o <<<<"setTimeout", atask.img>>>>
               /\ atask' = [atask EXCEPT !.pc = "idle", !.outcome = "success"]
          ELSE /\ out' = requests \o
                    <<Alert("Analysis Failed",
                            MessageOr(a.result.message,
                                      <<"Failed to analyze image. Please try again.">>))>>
               /\ atask' = [atask EXCEPT !.pc = "idle", !.outcome = "failed"]
               /\ UNCHANGED <<analysisResult, timers>>
  /\ isAnalyzing' = FALSE
  /\ UNCHANGED <<selectedImage, apiAvailable, ptask, clearDialog, files, call>>

\* a timer set by handleAnalyze fires: deleteImage(selectedImage.uri) with the
\* selectedImage of the render that started the analysis
TimerFire(t, fsOk) ==
  /\ t \in timers
  /\ timers' = timers \ {t}
  /\ out' = DeleteCalls(t.img, fsOk)
  /\ files' = DeleteFiles(t.img, fsOk)
  /\ UNCHANGED <<selectedImage, isAnalyzing, analysisResult, apiAvailable, ptask,
                 atask, clearDialog, call>>

(***************************************************************************)
(* handleClear                                                             *)
(***************************************************************************)
\* the clear button (rendered while an image is selected, disabled while
\* isAnalyzing) is pressed: the alert's onPress closes over selectedImage
PressClear ==
  /\ selectedImage # Null
  /\ ~isAnalyzing
  /\ clearDialog = "closed"
  /\ clearDialog' = selectedImage
  /\ out' = <<Alert("Clear Analysis",
                    <<"Are you sure you want to clear the current analysis?">>)>>
  /\ UNCHANGED <<selectedImage, isAnalyzing, analysisResult, apiAvailable, ptask,
                 atask, timers, files, call>>

CancelClear ==
  /\ clearDialog # "closed"
  /\ clearDialog' = "closed"
  /\ out' = <<>>
  /\ UNCHANGED <<selectedImage, isAnalyzing, analysisResult, apiAvailable, ptask,
                 atask, timers, files, call>>

\* the 'Clear' button of the alert
ConfirmClear(fsOk) ==
  /\ clearDialog # "closed"
  /\ IF clearDialog # Null
       THEN /\ out' = DeleteCalls(clearDialog, fsOk)
            /\ files' = DeleteFiles(clearDialog, fsOk)
       ELSE /\ out' = <<>>
            /\ UNCHANGED files
  /\ selectedImage' = Null
  /\ analysisResult' = Null
  /\ clearDialog' = "closed"
  /\ UNCHANGED <<isAnalyzing, apiAvailable, ptask, atask, timers, call>>

(***************************************************************************)
(* The screen                                                              *)
(***************************************************************************)
Next ==
  \/ \E h \in Handlers : PressPick(h)
  \/ \E h \in Handlers, st \in PermissionStatuses : PermissionDone(h, st)
  \/ \E h \in Handlers, res \in PickerResults : PickerDone(h, res)
  \/ PressAnalyze
  \/ \E resp \in ScreenResponses : HealthDone(resp)
  \/ \E resp \in ScreenResponses : AnalyzeDone(resp)
  \/ \E t \in Timers, fsOk \in BOOLEAN : TimerFire(t, fsOk)
  \/ PressClear
  \/ CancelClear
  \/ \E fsOk \in BOOLEAN : ConfirmClear(fsOk)

Spec == Init /\ [][Next]_vars

\* FairSpec: the timers the JavaScript runtime holds do fire, and every
\* request the screen issued settles.  Nothing is assumed of the user or of
\* the platform dialogs.
FairSpec ==
  /\ Spec
  /\ WF_vars(\E resp \in ScreenResponses : HealthDone(resp))
  /\ WF_vars(\E resp \in ScreenResponses : AnalyzeDone(resp))
  /\ WF_vars(\E t \in Timers, fsOk \in BOOLEAN : TimerFire(t, fsOk))

(***************************************************************************)
(* The service functions on their own                                      *)
(***************************************************************************)
FileTmpX == <<"f", "i", "l", "e", ":", "/", "/", "/", "t", "m", "p", "/", "x">>
HttpsX == <<"h", "t", "t", "p", "s", ":", "/", "/", "e", "/", "x">>

UriInputs ==
  {Undefined, JNull, Num(7), Num(0), Str(<<>>), Str(FileTmpX), Str(HttpsX),
   Str(UriOf("imgA")), Str(UriOf("imgB")),
   Str(<<"f", "i", "l", "e", ":", "/", "x">>),
   Str(<<"F", "I", "L", "E", ":", "/", "/", "x">>),
   Str(<<"/", "f", "i", "l", "e", ":", "/", "/", "x">>),
   Str(<<"f", "i", "l", "e", ":", "/", "/">>)}

CallCheckHealth(resp) ==
  /\ call' = [op |-> "checkHealth", resp |-> resp, result |-> checkHealth(resp)]
  /\ UNCHANGED uiVars

CallAnalyzeImage(readable, resp) ==
  /\ LET a == analyzeImage(readable, resp) IN
       call' = [op |-> "analyzeImage", readable |-> readable, resp |-> resp,
                posted |-> a.posted, result |-> a.result]
  /\ UNCHANGED uiVars

CallDeleteImage(uri, fsOk) ==
  /\ LET d == deleteImage(uri, fsOk) IN
       call' = [op |-> "deleteImage", uri |-> uri, fsOk |-> fsOk,
                fs |-> d.fs, result |-> d.result]
  /\ UNCHANGED uiVars

NextService ==
  \/ \E resp \in Responses : CallCheckHealth(resp)
  \/ \E readable \in BOOLEAN, resp \in Responses : CallAnalyzeImage(readable, resp)
  \/ \E uri \in UriInputs, fsOk \in BOOLEAN : CallDeleteImage(uri, fsOk)

ServiceSpec == Init /\ [][NextService]_vars

(***************************************************************************)
(* Properties                                                              *)
(***************************************************************************)
\* the calls named op among the calls o of a step
Has(o, op) == \E i \in DOMAIN o : o[i][1] = op

HasAlert(o, title) == \E i \in DOMAIN o : o[i][1] = "alert" /\ o[i][2] = title

\* the step whose calls are o received the answer e of the platform
Received(o, e) == Len(o) >= 1 /\ o[1] = e

Deletes(o, img) == \E i \in DOMAIN o : o[i] = <<"deleteImage", img>>

\* C1: handleAnalyze calls analyzeImage (file read, POST) only in a task
\* whose checkHealth() returned true; when checkHealth() returns false the
\* task shows 'Service Unavailable', does not call analyzeImage and ends
\* with analysisResult null.
AnalyzeOnlyWhenHealthy ==
  [][/\ Has(out', "analyzeImage") =>
          atask.pc = "health" /\ atask'.healthy = "yes" /\ atask'.id = atask.id
     /\ (Has(out', "readAsStringAsync") \/ Has(out', "POST")) =>
          atask.pc = "analyze" /\ atask.healthy = "yes" /\ atask'.id = atask.id
     /\ atask.pc = "health" /\ atask'.healthy = "no" =>
          /\ HasAlert(out', "Service Unavailable")
          /\ ~Has(out', "analyzeImage")
          /\ atask'.pc = "idle"
          /\ ~isAnalyzing'
     /\ atask'.healthy = "no" =>
          /\ analysisResult' = Null
          /\ atask'.pc = "idle"
          /\ ~Has(out', "readAsStringAsync") /\ ~Has(out', "POST")]_vars

UnavailableShown ==
  /\ atask.outcome = "unavailable"
  /\ HasAlert(out, "Service Unavailable")
  /\ selectedImage # Null
  /\ analysisResult = Null

\* a body that decodes to an object whose status field is "healthy"
HealthyDecoded(body) ==
  LET data == JSONParse(body) IN
    /\ data.type = "object"
    /\ "status" \in DOMAIN data.fields
    /\ data.fields["status"].type = "string"
    /\ data.fields["status"].chars = <<"healthy">>

\* C5: checkHealth() never throws; it returns true iff the transport
\* succeeded, the status is a success status and the decoded body's status
\* field is "healthy", and false otherwise.
CheckHealthContract ==
  call.op = "checkHealth" =>
    /\ call.result.kind = "return"
    /\ call.result.value \in BOOLEAN
    /\ call.result.value <=>
         /\ call.resp.transport = "ok"
         /\ call.resp.status \in 200..299
         /\ HealthyDecoded(call.resp.body)

HealthSwallowsThrow ==
  /\ call.op = "checkHealth"
  /\ call.resp.transport = "ok"
  /\ call.resp.status = 200
  /\ call.resp.body = NullBody
  /\ call.result = Return(FALSE)

\* C6: on a non-success status analyzeImage never returns; the error message
\* is exactly the detail field when the body parses as JSON with a detail
\* field, and otherwise a generic message containing the status code.
AnalyzeErrorContract ==
  (call.op = "analyzeImage" /\ call.readable /\ call.resp.transport = "ok"
     /\ ~Ok(call.resp.status)) =>
    /\ call.result.kind = "throw"
    /\ LET data == JSONParse(call.resp.body) IN
         IF data.type = "object" /\ "detail" \in DOMAIN data.fields
           THEN /\ data.fields["detail"].type = "string"
                /\ call.result.message = data.fields["detail"].chars
           ELSE \E i \in DOMAIN call.result.message :
                  call.result.message[i] = ToString(call.resp.status)

\* the prefix of a local-file URI
IsFileUri(uri) ==
  /\ uri.type = "string"
  /\ Len(uri.chars) >= 7
  /\ \A i \in 1..7 : uri.chars[i] = <<"f", "i", "l", "e", ":", "/", "/">>[i]

\* C7: deleteImage(uri) resolves without raising whether or not the
\* filesystem delete succeeds, and invokes the filesystem delete iff uri is
\* a string starting with "file://".
DeleteImageContract ==
  call.op = "deleteImage" =>
    /\ call.result.kind = "return"
    /\ call.fs <=> IsFileUri(call.uri)

DeleteFailureSwallowed ==
  /\ call.op = "deleteImage"
  /\ call.uri = Str(FileTmpX)
  /\ call.fs
  /\ ~call.fsOk
  /\ call.result.kind = "return"

\* C2: an ImageRef held in selectedImage does not outlive its backing file:
\* while selectedImage is non-null the file at selectedImage.uri exists.
SelectedImageHasFile ==
  selectedImage # Null => selectedImage \in files

\* C3: every image submitted through handleAnalyze is eventually passed to
\* deleteImage, whatever the outcome of the analysis.
SubmittedImageDeleted ==
  \A img \in Images :
    (atask.pc = "health" /\ atask.img = img) ~> Deletes(out, img)

\* C4: after a handleAnalyze task whose analyzeImage returned, deleteImage is
\* eventually invoked with the URI of the analysed image; the task sets its
\* timer only in the step that stored the result, and deleteImage is only
\* invoked by a timer that was pending or by the clear confirmation.
DeleteAfterSuccess ==
  /\ \A img \in Images :
       (Has(out, "setTimeout") /\ atask.outcome = "success" /\ atask.img = img)
         ~> Deletes(out, img)
  /\ [][/\ \A t \in timers' \ timers :
             /\ atask.pc = "analyze"
             /\ atask'.outcome = "success"
             /\ t = TimerOf(atask)
             /\ analysisResult' \in {ResultFor(t.img), Null}
             /\ ~Deletes(out', t.img)
        /\ \A img \in Images :
             Deletes(out', img) =>
               \/ \E t \in timers \ timers' : t.img = img
               \/ clearDialog = img /\ clearDialog' = "closed"]_vars

TimerDeleted ==
  /\ atask.outcome = "success"
  /\ TimerOf(atask) \notin timers
  /\ Deletes(out, atask.img)
  /\ clearDialog = "closed"
  /\ selectedImage = atask.img

\* C8: after the user confirms Clear, selectedImage and analysisResult are
\* null and deleteImage has been invoked with the URI of the image that was
\* selected immediately before the clear.
ClearDeletesSelected ==
  [][(clearDialog # "closed" /\ clearDialog' = "closed" /\ selectedImage' = Null) =>
       /\ analysisResult' = Null
       /\ Deletes(out', selectedImage)]_vars

\* C9: a cancelled picker / camera invocation returns null and leaves
\* selectedImage and analysisResult as they were, without alert or deletion;
\* only a non-cancelled invocation sets selectedImage, to the first returned
\* asset, and resets analysisResult.
CancelKeepsState ==
  [][\A h \in Handlers, res \in PickerResults :
       (ptask[h].pc = "picker" /\ Received(out', PickerEvent(h, res))) =>
         /\ (res.kind = "resolved" /\ res.canceled) =>
              /\ PickReturn(res) = Return(Null)
              /\ selectedImage' = selectedImage
              /\ analysisResult' = analysisResult
              /\ out' = <<PickerEvent(h, res)>>
              /\ files' = files
         /\ (selectedImage' # selectedImage \/ analysisResult' # analysisResult) =>
              /\ res.kind = "resolved" /\ ~res.canceled /\ Len(res.assets) >= 1
              /\ selectedImage' = res.assets[1]
              /\ analysisResult' = Null
         /\ (res.kind = "resolved" /\ ~res.canceled /\ Len(res.assets) >= 1) =>
              /\ selectedImage' = res.assets[1]
              /\ analysisResult' = Null]_vars

CancelledWhileResultShown ==
  /\ out = <<<<"picker", "pick", "canceled">>>>
  /\ ptask["pick"].pc = "idle"
  /\ selectedImage # Null
  /\ analysisResult # Null

\* C10: the permission is requested first and once per invocation; when it
\* is not granted the handler shows one alert with the permission error,
\* launches nothing, requests nothing again and leaves selectedImage and
\* analysisResult alone; the picker / camera is launched only after 'granted'.
PermissionFirst ==
  /\ [](\A h \in Handlers : ptask[h].pc = "picker" => ptask[h].perm = "granted")
  /\ [][\A h \in Handlers :
          /\ (\E i \in DOMAIN out' : out'[i] = <<"launch", h>>) =>
               /\ ptask[h].pc = "perm"
               /\ out' = <<<<"permission", h, "granted">>, <<"launch", h>>>>
          /\ (\E i \in DOMAIN out' : out'[i] = <<"requestPermission", h>>) =>
               /\ ptask[h].pc = "idle" /\ ptask'[h].pc = "perm"
               /\ out' = <<<<"requestPermission", h>>>>
          /\ ptask'[h].pc = "picker" => ptask[h].pc \in {"perm", "picker"}
          /\ \A st \in PermissionStatuses \ {"granted"} :
               (ptask[h].pc = "perm" /\ Received(out', <<"permission", h, st>>)) =>
                 /\ out' = <<<<"permission", h, st>>, Alert("Error", PermissionMessage(h))>>
                 /\ ptask'[h].pc = "idle"
                 /\ selectedImage' = selectedImage
                 /\ analysisResult' = analysisResult]_vars

PermissionDeniedShown ==
  /\ out = <<<<"permission", "capture", "denied">>,
             Alert("Error", CameraPermissionMessage)>>
  /\ ptask["capture"].pc = "idle"
  /\ ptask["pick"].pc = "picker"

\* the number of calls named op among the calls o of a step
Count(o, op) == Cardinality({i \in DOMAIN o : o[i][1] = op})

\* C11: while an analysis task is in flight isAnalyzing is true (the analyze
\* and clear buttons are disabled), so at most one analysis task is in
\* flight, no clear alert is opened and no clear confirmation takes effect
\* during an analysis.
AnalysisExcludesClear ==
  /\ [](atask.pc # "idle" => isAnalyzing)
  /\ [][/\ atask'.id # atask.id => atask.pc = "idle"
        /\ (clearDialog = "closed" /\ clearDialog' # "closed") => atask.pc = "idle"
        /\ (clearDialog # "closed" /\ clearDialog' = "closed"
              /\ selectedImage # Null /\ selectedImage' = Null) =>
             atask.pc = "idle"]_vars

\* C12: every failure (permission denied, picker rejected, health check
\* false, unreadable file, transport failure, non-2xx response) ends the
\* handler that started it with exactly one alert; a handleAnalyze task
\* issues one health GET, when it starts, and at most one analyze POST, in
\* its last step, and nothing is issued in a step that reports a failure
\* other than the request that failed.
OneAlertNoRetry ==
  [][/\ \A h \in Handlers :
          /\ (ptask[h].pc = "perm" /\ ptask'[h].pc = "idle") =>
               Count(out', "alert") = 1 /\ ~Has(out', "launch")
                 /\ ~Has(out', "requestPermission")
          /\ (ptask[h].pc = "picker" /\ Received(out', <<"picker", h, "rejected">>)) =>
               Count(out', "alert") = 1 /\ ptask'[h].pc = "idle"
                 /\ ~Has(out', "launch") /\ ~Has(out', "requestPermission")
     /\ (atask.pc # "idle" /\ atask'.outcome \in {"unavailable", "failed"}) =>
          /\ Count(out', "alert") = 1
          /\ atask'.pc = "idle"
          /\ ~isAnalyzing'
          /\ Count(out', "GET") = 0
          /\ Count(out', "readAsStringAsync") <= 1
     /\ Count(out', "GET") > 0 =>
          Count(out', "GET") = 1 /\ atask.pc = "idle" /\ atask'.id = atask.id + 1
     /\ Count(out', "POST") > 0 =>
          Count(out', "POST") = 1 /\ atask.pc = "analyze" /\ atask'.pc = "idle"
     /\ atask'.id = atask.id => (atask'.pc = atask.pc \/ atask.pc # "idle")
     /\ (atask.pc = "analyze" /\ atask'.id = atask.id) => atask'.pc # "health"]_vars

ServerErrorAlerted ==
  /\ atask.outcome = "failed"
  /\ atask.pc = "idle"
  /\ Count(out, "POST") = 1
  /\ Count(out, "alert") = 1
  /\ HasAlert(out, "Analysis Failed")

\* C13: whenever analysisResult is non-null, selectedImage is non-null and
\* analysisResult is the result of analysing the image in selectedImage.
ResultMatchesSelected ==
  analysisResult # Null =>
    selectedImage # Null /\ analysisResult = ResultFor(selectedImage)

\* C14: if every request settles, every handleAnalyze task finishes with
\* isAnalyzing false, so the analyze and clear buttons do not stay disabled.
AnalysisFinishes ==
  /\ (atask.pc # "idle") ~> (atask.pc = "idle" /\ ~isAnalyzing)
  /\ isAnalyzing ~> ~isAnalyzing
  /\ [](atask.pc = "idle" => ~isAnalyzing)

FailedAndEnabled ==
  /\ atask.outcome = "failed"
  /\ atask.pc = "idle"
  /\ ~isAnalyzing
  /\ Has(out, "POST")
  /\ selectedImage = atask.img

====
